---- MODULE Spec2Model ----
(***************************************************************************)
(* AsgService (source/lambda/schedulers/asg_service.py): the start/stop    *)
(* reconciliation of auto-scaling groups.  One behaviour is one call of    *)
(* stop_instances or start_instances: the generator is followed from its   *)
(* first statement to its end, to a `break` out of the batch loop, or to   *)
(* an exception that leaves it.  The control plane (autoscaling, ssm) is   *)
(* the environment: every call made to it either raises or answers, and    *)
(* its answer is drawn from a small set.                                   *)
(***************************************************************************)
EXTENDS Integers, Sequences, FiniteSets, TLC

(***************************************************************************)
(* Bounds of the model.  The source sets STOP_BATCH_SIZE = 50 and          *)
(* START_BATCH_SIZE = 5 (lines 36-37); the model scales both batch sizes   *)
(* down so that an input of MaxInput groups spans more than one batch.     *)
(***************************************************************************)
STOP_BATCH_SIZE == 2
START_BATCH_SIZE == 2
MaxInput == 3
MaxInstances == 1
MaxBatchInput == 4
MaxBatchSize == 3
MaxPageSize == 2

(* Program constants. *)
RETRY_CEILING == 3
DEFAULT_HEARTBEAT_TIMEOUT == 300
START_HEARTBEAT_TIMEOUT == 3600

STATE_STOPPED == "stopped"
STATE_RUNNING == "running"

(* The groups of the account; ecs1 carries the ECSAutoScalingGroup tag. *)
Groups == {"ecs1", "asg1", "asg2"}
EcsGroups == {"ecs1"}
asg_is_ecs_Always(g) == TRUE

asg_is_ecs(g) == g \in EcsGroups

Range(s) == {s[i] : i \in 1..Len(s)}

(***************************************************************************)
(* Input lists: the caller selects the groups to stop or start among the   *)
(* groups discovery returned, so a list holds distinct groups in the order *)
(* of discovery.                                                           *)
(***************************************************************************)
DiscoveryOrder(g) == CASE g = "asg1" -> 1 [] g = "asg2" -> 2 [] OTHER -> 3
InstanceLists ==
    {s \in UNION {[1..n -> Groups] : n \in 0..MaxInput} :
        \A i, j \in 1..Len(s) : i < j => DiscoveryOrder(s[i]) < DiscoveryOrder(s[j])}

(***************************************************************************)
(* Tags.  A group's tags are a mapping from key to value; NoTag stands for *)
(* an absent key.  "state" is a key of both the started and the stopped    *)
(* tag sets, "startedBy" and "stoppedBy" belong to one set only, "owner"   *)
(* to neither.                                                             *)
(***************************************************************************)
NoTag == "-"
TagKeys == {"state", "startedBy", "stoppedBy", "owner"}
Tag(k, v) == [Key |-> k, Value |-> v]

TagConfigs ==
    { [started_tags |-> <<Tag("state", "running"), Tag("startedBy", "sched")>>,
       stopped_tags |-> <<Tag("state", "stopped"), Tag("stoppedBy", "sched")>>],
      [started_tags |-> <<Tag("startedBy", "sched")>>,
       stopped_tags |-> <<>>],
      [started_tags |-> <<>>,
       stopped_tags |-> <<Tag("stoppedBy", "sched")>>] }

InitialTags ==
    { [k \in TagKeys |-> NoTag],
      [k \in TagKeys |-> CASE k = "state" -> "running"
                           [] k = "startedBy" -> "sched"
                           [] k = "stoppedBy" -> "old"
                           [] OTHER -> "team"],
      [k \in TagKeys |-> CASE k = "state" -> "stopped"
                           [] k = "stoppedBy" -> "sched"
                           [] k = "startedBy" -> "old"
                           [] OTHER -> NoTag] }

(* The per-group scaling configuration handed to start_instances. *)
Capacity(g) ==
    CASE g = "ecs1" -> [desired_capacity |-> 2, min_size |-> 1]
      [] g = "asg1" -> [desired_capacity |-> 1, min_size |-> 1]
      [] OTHER      -> [desired_capacity |-> 1, min_size |-> 0]
AsgConfs == {[g \in S |-> Capacity(g)] : S \in {T \in SUBSET Groups : Cardinality(T) >= 2}}

(* Values the parameter store may hold for the heartbeat timeout. *)
ParamValues == {<<"1", "2", "0">>, <<"a", "b", "c">>}

VARIABLES
    mode,            \* "none", "stop", "start": the generator being run
    pc,              \* position in the generator
    instances,       \* the list handed to the call
    started_tags,    \* kwargs[PARAM_CONFIG].started_tags
    stopped_tags,    \* kwargs[PARAM_CONFIG].stopped_tags
    asg_conf,        \* kwargs[PARAM_ASG_CONF]
    batches,         \* batches still to be handled
    asg_instance,    \* the batch being handled
    asg_ids,         \* its plain groups
    asg_ecs_ids,     \* its ECS groups
    idx,             \* index of the group the mutation loop is at
    reached_ecs,     \* asg_instances_ecs_stopped / asg_instances_ecs_started
    reached_plain,   \* asg_instances_stopped / asg_instances_started
    get_status_count,
    output,          \* the pairs yielded so far
    raised,          \* the exception that left the generator, or "none"
    warned,          \* groups named in a not-stopping/not-starting warning
    tags,            \* control plane: tags of every group
    hookTimeout,     \* control plane: heartbeat timeout set by put_lifecycle_hook
    hookLookup,      \* per group, what the lookup of its termination hook gave
    paramRead,       \* per group, the answers of ssm.get_parameter
    putCalls,        \* per group, the put_lifecycle_hook calls made
    updates,         \* per group, the update_auto_scaling_group calls issued
    lastStatus,      \* per group, what the latest status query reported
    waited,          \* groups whose subset went through the 5 second wait
    polled,          \* groups whose subset was re-queried after the wait
    rounds,          \* per subset of the batch, the waits made for it
    tagFailedOn,     \* groups a tagging call raised for
    tagBlockFailed,  \* groups of a reached list whose tagging block raised
    propagated       \* control plane: (group, key) of the tags set to propagate at launch

(* A call of instance_batches on its own. *)
VARIABLES
    batch_input,     \* the argument asg_instances
    batch_size,      \* the argument size
    batch_output,    \* the batches yielded
    batch_pc         \* "idle" before the call, "done" after it

(* A call of get_schedulable_instances. *)
VARIABLES
    listing,         \* control plane: the pages of the listing operation
    args,            \* the arguments of the next listing call
    number_of_asgs,
    discovered,      \* the local list asg_instances
    selected,        \* every descriptor given to _select_instance_data, with its result
    describe_calls,  \* the continuation token of every listing call made
    returned,        \* what the call returned, if it did
    d_pc             \* "idle", "paging", "returned" or "raised"

callVars == <<mode, pc, instances, started_tags, stopped_tags, asg_conf, batches,
              asg_instance, asg_ids, asg_ecs_ids, idx, reached_ecs, reached_plain,
              get_status_count, output, raised, warned, tags, hookTimeout, updates,
              lastStatus, waited, polled, tagFailedOn, tagBlockFailed, hookLookup,
              paramRead, putCalls, rounds, propagated>>
batchCallVars == <<batch_input, batch_size, batch_output, batch_pc>>
discoveryVars == <<listing, args, number_of_asgs, discovered, selected,
                   describe_calls, returned, d_pc>>
otherCalls == <<batchCallVars, discoveryVars>>

vars == <<callVars, batchCallVars, discoveryVars>>

configVars == <<mode, instances, started_tags, stopped_tags, asg_conf>>
batchVars == <<batches, asg_instance, asg_ids, asg_ecs_ids>>
tagVars == <<tags, tagFailedOn, tagBlockFailed, propagated>>
pollVars == <<waited, polled, warned, get_status_count, rounds>>
hookVars == <<hookTimeout, hookLookup, paramRead, putCalls>>

(***************************************************************************)
(* instance_batches: fill a buffer, yield it when it holds `size` groups,  *)
(* yield what is left at the end.                                          *)
(***************************************************************************)
RECURSIVE batches_from_DropsRemainder(_, _, _, _)
batches_from_DropsRemainder(asg_instances, size, i, instance_buffer) ==
    IF i > Len(asg_instances)
    THEN <<>>
    ELSE LET b == Append(instance_buffer, asg_instances[i])
         IN  IF Len(b) = size
             THEN <<b>> \o batches_from_DropsRemainder(asg_instances, size, i + 1, <<>>)
             ELSE batches_from_DropsRemainder(asg_instances, size, i + 1, b)

RECURSIVE batches_from(_, _, _, _)
batches_from(asg_instances, size, i, instance_buffer) ==
    IF i > Len(asg_instances)
    THEN IF Len(instance_buffer) > 0 THEN <<instance_buffer>> ELSE <<>>
    ELSE LET b == Append(instance_buffer, asg_instances[i])
         IN  IF Len(b) = size
             THEN <<b>> \o batches_from(asg_instances, size, i + 1, <<>>)
             ELSE batches_from(asg_instances, size, i + 1, b)

instance_batches_LastFirst(asg_instances, size) ==
    LET b == batches_from(asg_instances, size, 1, <<>>)
    IN  [k \in 1..Len(b) |-> b[Len(b) + 1 - k]]

instance_batches(asg_instances, size) == batches_from(asg_instances, size, 1, <<>>)

(***************************************************************************)
(* get_asg_status.  A describe response gives, for every requested name,   *)
(* the number of in-service instances, or Absent when the group is not in  *)
(* the response.  The result lists name and state of the returned groups.  *)
(***************************************************************************)
Absent == -1
Responses(ids) == [Range(ids) -> {Absent} \cup (0..MaxInstances)]

StateOf(InstanceNumber) == IF InstanceNumber = 0 THEN "stopped" ELSE "running"

get_asg_status_Twice(ids, resp) ==
    LET present == SelectSeq(ids, LAMBDA g : resp[g] # Absent) \o
                       SelectSeq(ids, LAMBDA g : resp[g] # Absent)
    IN  [i \in 1..Len(present) |->
            [AutoScalingGroupName |-> present[i], State |-> StateOf(resp[present[i]])]]

get_asg_status(ids, resp) ==
    LET present == SelectSeq(ids, LAMBDA g : resp[g] # Absent)
    IN  [i \in 1..Len(present) |->
            [AutoScalingGroupName |-> present[i], State |-> StateOf(resp[present[i]])]]

(* [i["AutoScalingGroupName"] for i in self.get_asg_status(client, ids)] *)
StatusNames(status) == [i \in 1..Len(status) |-> status[i].AutoScalingGroupName]

(* What the query reported for each requested group. *)
Reported(resp, g) == IF resp[g] = Absent THEN "absent" ELSE StateOf(resp[g])
RecordStatus(ids, resp) ==
    [g \in Groups |-> IF g \in Range(ids) THEN Reported(resp, g) ELSE lastStatus[g]]

(***************************************************************************)
(* get_asg_termination_lifecycle_hook_timeout: the value of the parameter, *)
(* a string, or the integer 300 when get_parameter raises ClientError.     *)
(***************************************************************************)
IntValue(n) == [is_int |-> TRUE, n |-> n, s |-> <<>>]
StrValue(s) == [is_int |-> FALSE, n |-> 0, s |-> s]

(* What ssm.get_parameter does: it raises ClientError or returns a value. *)
ParameterOutcomes ==
    {[ClientError |-> TRUE, Value |-> <<>>]}
        \cup {[ClientError |-> FALSE, Value |-> v] : v \in ParamValues}

get_asg_termination_lifecycle_hook_timeout_NeverRead(parameter) ==
    IntValue(DEFAULT_HEARTBEAT_TIMEOUT)

get_asg_termination_lifecycle_hook_timeout(parameter) ==
    IF parameter.ClientError
    THEN IntValue(DEFAULT_HEARTBEAT_TIMEOUT)
    ELSE StrValue(parameter.Value)

(***************************************************************************)
(* int(HeartbeatTimeout): an integer is itself, a string of decimal digits *)
(* is parsed, any other string raises ValueError (NotANumber).             *)
(***************************************************************************)
NotANumber == -1
Digits == {"0", "1", "2", "3", "4", "5", "6", "7", "8", "9"}
DigitValue(c) ==
    CASE c = "0" -> 0 [] c = "1" -> 1 [] c = "2" -> 2 [] c = "3" -> 3 [] c = "4" -> 4
      [] c = "5" -> 5 [] c = "6" -> 6 [] c = "7" -> 7 [] c = "8" -> 8 [] OTHER -> 9

RECURSIVE ParseDigits(_, _)
ParseDigits(s, n) ==
    IF n = 0 THEN 0 ELSE 10 * ParseDigits(s, n - 1) + DigitValue(s[n])

int(v) ==
    IF v.is_int
    THEN v.n
    ELSE IF Len(v.s) > 0 /\ \A i \in 1..Len(v.s) : v.s[i] \in Digits
         THEN ParseDigits(v.s, Len(v.s))
         ELSE NotANumber

(***************************************************************************)
(* Tag bookkeeping.  The keys to delete are those of the opposite state    *)
(* that the reached state does not set itself.                             *)
(***************************************************************************)
TagKeysOf(tag_list) == {tag_list[i].Key : i \in 1..Len(tag_list)}

start_tags_keys_Overlapping(started, stop_tags) ==
    SelectSeq(started, LAMBDA t : t.Key \in TagKeysOf(stop_tags))

start_tags_keys(started, stop_tags) ==
    SelectSeq(started, LAMBDA t : t.Key \notin TagKeysOf(stop_tags))

stop_tags_keys(stopped, start_tags) ==
    SelectSeq(stopped, LAMBDA t : t.Key \notin TagKeysOf(start_tags))

(* The tagging calls of one try block, in the order they are made. *)
DeleteCalls(reached, keys) ==
    [i \in 1..(Len(reached) * Len(keys)) |->
        [op |-> "delete_tags",
         ResourceId |-> reached[((i - 1) \div Len(keys)) + 1],
         Key |-> keys[((i - 1) % Len(keys)) + 1].Key,
         Value |-> NoTag,
         PropagateAtLaunch |-> FALSE]]

CreateCalls_Propagating(reached, tag_list) ==
    [i \in 1..(Len(reached) * Len(tag_list)) |->
        [op |-> "create_or_update_tags",
         ResourceId |-> reached[((i - 1) \div Len(tag_list)) + 1],
         Key |-> tag_list[((i - 1) % Len(tag_list)) + 1].Key,
         Value |-> tag_list[((i - 1) % Len(tag_list)) + 1].Value,
         PropagateAtLaunch |-> TRUE]]

CreateCalls(reached, tag_list) ==
    [i \in 1..(Len(reached) * Len(tag_list)) |->
        [op |-> "create_or_update_tags",
         ResourceId |-> reached[((i - 1) \div Len(tag_list)) + 1],
         Key |-> tag_list[((i - 1) % Len(tag_list)) + 1].Key,
         Value |-> tag_list[((i - 1) % Len(tag_list)) + 1].Value,
         PropagateAtLaunch |-> FALSE]]

TagCalls(reached, keys, tag_list) ==
    DeleteCalls(reached, keys) \o CreateCalls(reached, tag_list)

ApplyTagCall(t, c) == [t EXCEPT ![c.ResourceId][c.Key] = c.Value]

RECURSIVE ApplyTagCalls(_, _, _)
ApplyTagCalls(t, calls, n) ==
    IF n = 0 THEN t ELSE ApplyTagCall(ApplyTagCalls(t, calls, n - 1), calls[n])

(* The tags the first n calls leave with PropagateAtLaunch set. *)
Propagating(p, calls, n) ==
    (p \ {<<calls[i].ResourceId, calls[i].Key>> : i \in 1..n})
        \cup {<<calls[i].ResourceId, calls[i].Key>> :
                 i \in {k \in 1..n : /\ calls[k].op = "create_or_update_tags"
                                      /\ calls[k].PropagateAtLaunch
                                      /\ \A l \in (k + 1)..n :
                                            calls[l].ResourceId # calls[k].ResourceId
                                                \/ calls[l].Key # calls[k].Key}}

(***************************************************************************)
(* The yields follow the try block; its handler only logs, so what is      *)
(* yielded does not depend on whether a tagging call raised.               *)
(***************************************************************************)
Yielded_OnlyWhenTagged(reached, state, tagging_ok) ==
    IF tagging_ok THEN [i \in 1..Len(reached) |-> <<reached[i], state>>] ELSE <<>>

Yielded(reached, state, tagging_ok) == [i \in 1..Len(reached) |-> <<reached[i], state>>]

(***************************************************************************)
(* The try block around the tagging calls and the yields that follow it:   *)
(* the first n calls succeed; when n is not the last call, call n + 1      *)
(* raises, the rest of the block is skipped and a warning is logged.       *)
(***************************************************************************)
TagAndYield(reached, keys, tag_list, state) ==
    IF Len(reached) > 0
    THEN LET calls == TagCalls(reached, keys, tag_list)
         IN  \E n \in 0..Len(calls) :
                /\ tags' = ApplyTagCalls(tags, calls, n)
                /\ tagFailedOn' = IF n < Len(calls)
                                  THEN tagFailedOn \cup {calls[n + 1].ResourceId}
                                  ELSE tagFailedOn
                /\ tagBlockFailed' = IF n < Len(calls)
                                     THEN tagBlockFailed \cup Range(reached)
                                     ELSE tagBlockFailed
                /\ propagated' = Propagating(propagated, calls, n)
                /\ output' = output \o Yielded(reached, state, n = Len(calls))
    ELSE UNCHANGED <<tags, tagFailedOn, tagBlockFailed, propagated, output>>

(***************************************************************************)
(* Init: no call is running; the groups carry one of the initial tag sets. *)
(***************************************************************************)
NoToken == 0
NoBatchCall ==
    /\ batch_input = <<>>
    /\ batch_size = 1
    /\ batch_output = <<>>
    /\ batch_pc = "idle"

NoDiscovery ==
    /\ listing = <<>>
    /\ args = [NextToken |-> NoToken]
    /\ number_of_asgs = 0
    /\ discovered = <<>>
    /\ selected = <<>>
    /\ describe_calls = <<>>
    /\ returned = [done |-> FALSE, value |-> <<>>]
    /\ d_pc = "idle"

NoCall ==
    /\ mode = "none"
    /\ pc = "idle"
    /\ instances = <<>>
    /\ started_tags = <<>>
    /\ stopped_tags = <<>>
    /\ asg_conf = << >>
    /\ batches = <<>>
    /\ asg_instance = <<>>
    /\ asg_ids = <<>>
    /\ asg_ecs_ids = <<>>
    /\ idx = 1
    /\ reached_ecs = <<>>
    /\ reached_plain = <<>>
    /\ get_status_count = 0
    /\ output = <<>>
    /\ raised = "none"
    /\ warned = {}
    /\ hookTimeout = [g \in Groups |-> 0]
    /\ hookLookup = [g \in Groups |-> "unknown"]
    /\ paramRead = [g \in Groups |-> <<>>]
    /\ putCalls = [g \in Groups |-> <<>>]
    /\ rounds = [ecs |-> 0, plain |-> 0]
    /\ updates = [g \in Groups |-> <<>>]
    /\ lastStatus = [g \in Groups |-> "none"]
    /\ waited = {}
    /\ polled = {}
    /\ tagFailedOn = {}
    /\ tagBlockFailed = {}
    /\ propagated = {}

Init ==
    /\ NoCall
    /\ tags \in {[g \in Groups |-> t] : t \in InitialTags}
    /\ NoBatchCall
    /\ NoDiscovery

(* Where the generator goes once the loop over the ECS groups is over. *)
AfterEcsLoop == IF Len(asg_ids) # 0 THEN "plain" ELSE "poll_ecs"

(* The head of the batch loop: take the next batch and split it. *)
NextBatch ==
    IF batches = <<>>
    THEN /\ pc' = "done"
         /\ UNCHANGED <<batchVars, idx, reached_ecs, reached_plain, rounds>>
    ELSE LET batch == Head(batches)
             ecs == SelectSeq(batch, asg_is_ecs)
             plain == SelectSeq(batch, LAMBDA g : ~asg_is_ecs(g))
         IN  /\ batches' = Tail(batches)
             /\ asg_instance' = batch
             /\ asg_ecs_ids' = ecs
             /\ asg_ids' = plain
             /\ reached_ecs' = <<>>
             /\ reached_plain' = <<>>
             /\ idx' = 1
             /\ rounds' = [ecs |-> 0, plain |-> 0]
             /\ pc' = IF Len(ecs) # 0 THEN "ecs" ELSE "plain"

(***************************************************************************)
(* stop_instances                                                          *)
(***************************************************************************)
StopInstances ==
    /\ pc = "idle"
    /\ UNCHANGED otherCalls
    /\ \E list \in InstanceLists, cfg \in TagConfigs :
          /\ instances' = list
          /\ started_tags' = cfg.started_tags
          /\ stopped_tags' = cfg.stopped_tags
          /\ batches' = instance_batches(list, STOP_BATCH_SIZE)
    /\ mode' = "stop"
    /\ pc' = "batch"
    /\ UNCHANGED <<asg_conf, asg_instance, asg_ids, asg_ecs_ids, idx, reached_ecs,
                   reached_plain, output, raised, hookVars, updates, lastStatus,
                   tagVars, pollVars>>

StopNextBatch ==
    /\ mode = "stop" /\ pc = "batch"
    /\ UNCHANGED otherCalls
    /\ NextBatch
    /\ UNCHANGED <<configVars, output, raised, hookVars, updates, lastStatus,
                   tagVars, waited, polled, warned, get_status_count>>

(***************************************************************************)
(* Lines 250-256.  describe_lifecycle_hooks raises ClientError, returns no *)
(* hook named Termination ([0] raises IndexError) or returns one; then the *)
(* timeout is read, converted, and put_lifecycle_hook is called.  Only a   *)
(* ClientError is caught.                                                  *)
(***************************************************************************)
HookLookups == {"ClientError", "none", "found"}
PutOutcomes == {"ok", "ClientError"}

(* One put_lifecycle_hook call, and whether the group had been mutated then. *)
PutCall(asg, HeartbeatTimeout, ok) ==
    [AutoScalingGroupName |-> asg, HeartbeatTimeout |-> HeartbeatTimeout,
     mutated |-> updates[asg] # <<>>, accepted |-> ok]

StopEcsHook ==
    /\ mode = "stop" /\ pc = "ecs"
    /\ UNCHANGED otherCalls
    /\ \E hooks \in HookLookups, parameter \in ParameterOutcomes,
          put \in PutOutcomes :
          LET asg == asg_ecs_ids[idx]
              HeartbeatTimeout == get_asg_termination_lifecycle_hook_timeout(parameter)
          IN  /\ hookLookup' = [hookLookup EXCEPT ![asg] = hooks]
              /\ CASE hooks = "ClientError" ->
                    /\ pc' = "ecs_mutate"
                    /\ UNCHANGED <<raised, hookTimeout, paramRead, putCalls>>
                [] hooks = "none" ->
                    /\ raised' = "IndexError"
                    /\ pc' = "done"
                    /\ UNCHANGED <<hookTimeout, paramRead, putCalls>>
                [] int(HeartbeatTimeout) = NotANumber ->
                    /\ paramRead' = [paramRead EXCEPT ![asg] = Append(@, parameter)]
                    /\ raised' = "ValueError"
                    /\ pc' = "done"
                    /\ UNCHANGED <<hookTimeout, putCalls>>
                [] OTHER ->
                    /\ paramRead' = [paramRead EXCEPT ![asg] = Append(@, parameter)]
                    /\ putCalls' = [putCalls EXCEPT ![asg] = Append(@,
                            PutCall(asg, int(HeartbeatTimeout), put = "ok"))]
                    /\ hookTimeout' = [hookTimeout EXCEPT ![asg] =
                            IF put = "ok" THEN int(HeartbeatTimeout) ELSE @]
                    /\ pc' = "ecs_mutate"
                    /\ UNCHANGED raised
    /\ UNCHANGED <<configVars, batchVars, idx, reached_ecs, reached_plain, output,
                   updates, lastStatus, tagVars, pollVars>>

(***************************************************************************)
(* One round of a mutation loop: update_auto_scaling_group for ids[idx],   *)
(* then the status of the whole subset; an exception of either is logged.  *)
(***************************************************************************)
Mutation(asg, DesiredCapacity, MinSize, ok) ==
    [AutoScalingGroupName |-> asg, DesiredCapacity |-> DesiredCapacity,
     MinSize |-> MinSize, accepted |-> ok]

StopEcsMutate ==
    /\ mode = "stop" /\ pc = "ecs_mutate"
    /\ UNCHANGED otherCalls
    /\ LET asg == asg_ecs_ids[idx]
       IN  \/ /\ updates' = [updates EXCEPT ![asg] = Append(@, Mutation(asg, 0, 0, FALSE))]
              /\ UNCHANGED <<reached_ecs, lastStatus>>
           \/ /\ updates' = [updates EXCEPT ![asg] = Append(@, Mutation(asg, 0, 0, TRUE))]
              /\ \/ UNCHANGED <<reached_ecs, lastStatus>>
                 \/ \E resp \in Responses(asg_ecs_ids) :
                       /\ reached_ecs' = StatusNames(get_asg_status(asg_ecs_ids, resp))
                       /\ lastStatus' = RecordStatus(asg_ecs_ids, resp)
    /\ idx' = IF idx < Len(asg_ecs_ids) THEN idx + 1 ELSE 1
    /\ pc' = IF idx < Len(asg_ecs_ids) THEN "ecs" ELSE AfterEcsLoop
    /\ UNCHANGED <<configVars, batchVars, reached_plain, output, raised, hookVars,
                   tagVars, pollVars>>

StopPlainMutate_FailureRaised ==
    /\ mode = "stop" /\ pc = "plain"
    /\ UNCHANGED otherCalls
    /\ LET asg == asg_ids[idx]
       IN  \/ /\ updates' = [updates EXCEPT ![asg] = Append(@, Mutation(asg, 0, 0, FALSE))]
              /\ UNCHANGED <<reached_plain, lastStatus>>
              /\ raised' = "ClientError" /\ pc' = "done" /\ UNCHANGED idx
           \/ /\ updates' = [updates EXCEPT ![asg] = Append(@, Mutation(asg, 0, 0, TRUE))]
              /\ \/ UNCHANGED <<reached_plain, lastStatus>>
                 \/ \E resp \in Responses(asg_ids) :
                       /\ reached_plain' = StatusNames(get_asg_status(asg_ids, resp))
                       /\ lastStatus' = RecordStatus(asg_ids, resp)
              /\ idx' = IF idx < Len(asg_ids) THEN idx + 1 ELSE 1
              /\ pc' = IF idx < Len(asg_ids) THEN "plain" ELSE "poll_ecs"
              /\ UNCHANGED raised
    /\ UNCHANGED <<configVars, batchVars, reached_ecs, output, hookVars,
                   tagVars, pollVars>>

StopPlainMutate ==
    /\ mode = "stop" /\ pc = "plain"
    /\ UNCHANGED otherCalls
    /\ LET asg == asg_ids[idx]
       IN  \/ /\ updates' = [updates EXCEPT ![asg] = Append(@, Mutation(asg, 0, 0, FALSE))]
              /\ UNCHANGED <<reached_plain, lastStatus>>
           \/ /\ updates' = [updates EXCEPT ![asg] = Append(@, Mutation(asg, 0, 0, TRUE))]
              /\ \/ UNCHANGED <<reached_plain, lastStatus>>
                 \/ \E resp \in Responses(asg_ids) :
                       /\ reached_plain' = StatusNames(get_asg_status(asg_ids, resp))
                       /\ lastStatus' = RecordStatus(asg_ids, resp)
    /\ idx' = IF idx < Len(asg_ids) THEN idx + 1 ELSE 1
    /\ pc' = IF idx < Len(asg_ids) THEN "plain" ELSE "poll_ecs"
    /\ UNCHANGED <<configVars, batchVars, reached_ecs, output, raised, hookVars,
                   tagVars, pollVars>>

(***************************************************************************)
(* Lines 278-290 and 292-303.  get_status_count is set to 0 before the ECS *)
(* subset is looked at.  When the list is shorter than the subset: sleep,  *)
(* query the status again (an exception leaves the generator); `break`     *)
(* leaves the loop over the batches when the list is as long as the batch, *)
(* or when the counter exceeds the ceiling.  The warning loop compares the *)
(* instances of the batch with the names of the list, which are never      *)
(* equal, so it names every instance of the batch.                         *)
(***************************************************************************)
Waited(ecs) ==
    IF ecs THEN [rounds EXCEPT !.ecs = @ + 1] ELSE [rounds EXCEPT !.plain = @ + 1]

StopPoll_NoCeiling(ecs, next) ==
    LET ids == IF ecs THEN asg_ecs_ids ELSE asg_ids
        reached == IF ecs THEN reached_ecs ELSE reached_plain
    IN
    IF Len(reached) < Len(ids)
    THEN /\ waited' = waited \cup Range(ids)
         /\ rounds' = Waited(ecs)
         /\ \E resp \in Responses(ids) :
               LET names == StatusNames(get_asg_status(ids, resp))
               IN  /\ IF ecs
                      THEN reached_ecs' = names /\ UNCHANGED reached_plain
                      ELSE reached_plain' = names /\ UNCHANGED reached_ecs
                   /\ lastStatus' = RecordStatus(ids, resp)
                   /\ polled' = polled \cup Range(ids)
         /\ UNCHANGED <<pc, raised, warned, get_status_count>>
    ELSE /\ pc' = next
         /\ UNCHANGED <<reached_ecs, reached_plain, lastStatus, raised, waited, polled,
                        warned, rounds, get_status_count>>

StopPoll(ecs, next) ==
    LET ids == IF ecs THEN asg_ecs_ids ELSE asg_ids
        reached == IF ecs THEN reached_ecs ELSE reached_plain
        count == IF ecs THEN 0 ELSE get_status_count
    IN
    IF Len(reached) < Len(ids)
    THEN /\ waited' = waited \cup Range(ids)
         /\ rounds' = Waited(ecs)
         /\ \/ /\ raised' = "ClientError"
               /\ pc' = "done"
               /\ get_status_count' = count
               /\ UNCHANGED <<reached_ecs, reached_plain, lastStatus, polled, warned>>
            \/ \E resp \in Responses(ids) :
                  LET names == StatusNames(get_asg_status(ids, resp))
                  IN  /\ IF ecs
                         THEN reached_ecs' = names /\ UNCHANGED reached_plain
                         ELSE reached_plain' = names /\ UNCHANGED reached_ecs
                      /\ lastStatus' = RecordStatus(ids, resp)
                      /\ polled' = polled \cup Range(ids)
                      /\ UNCHANGED raised
                      /\ IF Len(names) = Len(asg_instance)
                         THEN /\ pc' = "done"
                              /\ get_status_count' = count
                              /\ UNCHANGED warned
                         ELSE /\ get_status_count' = count + 1
                              /\ IF count + 1 > RETRY_CEILING
                                 THEN /\ warned' = warned \cup Range(asg_instance)
                                      /\ pc' = "done"
                                 ELSE /\ pc' = next
                                      /\ UNCHANGED warned
    ELSE /\ pc' = next
         /\ get_status_count' = count
         /\ UNCHANGED <<reached_ecs, reached_plain, lastStatus, raised, waited, polled,
                        warned, rounds>>

StopPollEcs ==
    /\ mode = "stop" /\ pc = "poll_ecs"
    /\ UNCHANGED otherCalls
    /\ StopPoll(TRUE, "poll_plain")
    /\ UNCHANGED <<configVars, batchVars, idx, output, hookVars, updates, tagVars>>

StopPollPlain ==
    /\ mode = "stop" /\ pc = "poll_plain"
    /\ UNCHANGED otherCalls
    /\ StopPoll(FALSE, "tag_ecs")
    /\ UNCHANGED <<configVars, batchVars, idx, output, hookVars, updates, tagVars>>

(* Lines 305-323 and 325-343. *)
StopTagEcs ==
    /\ mode = "stop" /\ pc = "tag_ecs"
    /\ UNCHANGED otherCalls
    /\ TagAndYield(reached_ecs, start_tags_keys(started_tags, stopped_tags),
                   stopped_tags, STATE_STOPPED)
    /\ pc' = "tag_plain"
    /\ UNCHANGED <<configVars, batchVars, idx, reached_ecs, reached_plain, raised,
                   hookVars, updates, lastStatus, pollVars>>

StopTagPlain ==
    /\ mode = "stop" /\ pc = "tag_plain"
    /\ UNCHANGED otherCalls
    /\ TagAndYield(reached_plain, start_tags_keys(started_tags, stopped_tags),
                   stopped_tags, STATE_STOPPED)
    /\ pc' = "batch"
    /\ UNCHANGED <<configVars, batchVars, idx, reached_ecs, reached_plain, raised,
                   hookVars, updates, lastStatus, pollVars>>

(***************************************************************************)
(* start_instances                                                         *)
(***************************************************************************)
StartInstances ==
    /\ pc = "idle"
    /\ UNCHANGED otherCalls
    /\ \E list \in InstanceLists, cfg \in TagConfigs, conf \in AsgConfs :
          /\ instances' = list
          /\ started_tags' = cfg.started_tags
          /\ stopped_tags' = cfg.stopped_tags
          /\ asg_conf' = conf
          /\ batches' = instance_batches(list, START_BATCH_SIZE)
    /\ mode' = "start"
    /\ pc' = "batch"
    /\ UNCHANGED <<asg_instance, asg_ids, asg_ecs_ids, idx, reached_ecs,
                   reached_plain, output, raised, hookVars, updates, lastStatus,
                   tagVars, pollVars>>

StartNextBatch ==
    /\ mode = "start" /\ pc = "batch"
    /\ UNCHANGED otherCalls
    /\ NextBatch
    /\ UNCHANGED <<configVars, output, raised, hookVars, updates, lastStatus,
                   tagVars, waited, polled, warned, get_status_count>>

(* Lines 379-383: look the termination hook up and put it with 3600. *)
StartEcsHook ==
    /\ mode = "start" /\ pc = "ecs"
    /\ UNCHANGED otherCalls
    /\ \E hooks \in HookLookups, put \in PutOutcomes :
          LET asg == asg_ecs_ids[idx]
          IN  /\ hookLookup' = [hookLookup EXCEPT ![asg] = hooks]
              /\ UNCHANGED paramRead
              /\ CASE hooks = "ClientError" ->
                    /\ pc' = "ecs_mutate"
                    /\ UNCHANGED <<raised, hookTimeout, putCalls>>
                [] hooks = "none" ->
                    /\ raised' = "IndexError"
                    /\ pc' = "done"
                    /\ UNCHANGED <<hookTimeout, putCalls>>
                [] OTHER ->
                    /\ putCalls' = [putCalls EXCEPT ![asg] = Append(@,
                            PutCall(asg, START_HEARTBEAT_TIMEOUT, put = "ok"))]
                    /\ hookTimeout' = [hookTimeout EXCEPT ![asg] =
                            IF put = "ok" THEN START_HEARTBEAT_TIMEOUT ELSE @]
                    /\ pc' = "ecs_mutate"
                    /\ UNCHANGED raised
    /\ UNCHANGED <<configVars, batchVars, idx, reached_ecs, reached_plain, output,
                   updates, lastStatus, tagVars, pollVars>>

(***************************************************************************)
(* Lines 384-390 and 396-402: the entry of asg_conf whose key is the group *)
(* gives the capacity; without such an entry nothing is called.            *)
(***************************************************************************)
conf_values_AnyKey(conf, asg) == {conf[key] : key \in DOMAIN conf}

conf_values(conf, asg) == {conf[key] : key \in {k \in DOMAIN conf : k = asg}}

StartEcsMutate ==
    /\ mode = "start" /\ pc = "ecs_mutate"
    /\ UNCHANGED otherCalls
    /\ LET asg == asg_ecs_ids[idx]
       IN  IF conf_values(asg_conf, asg) # {}
           THEN LET value == CHOOSE v \in conf_values(asg_conf, asg) : TRUE
                IN  \/ /\ updates' = [updates EXCEPT ![asg] = Append(@,
                                Mutation(asg, value.desired_capacity, value.min_size, FALSE))]
                       /\ UNCHANGED <<reached_ecs, lastStatus>>
                    \/ /\ updates' = [updates EXCEPT ![asg] = Append(@,
                                Mutation(asg, value.desired_capacity, value.min_size, TRUE))]
                       /\ \/ UNCHANGED <<reached_ecs, lastStatus>>
                          \/ \E resp \in Responses(asg_ecs_ids) :
                                /\ reached_ecs' = StatusNames(get_asg_status(asg_ecs_ids, resp))
                                /\ lastStatus' = RecordStatus(asg_ecs_ids, resp)
           ELSE UNCHANGED <<updates, reached_ecs, lastStatus>>
    /\ idx' = IF idx < Len(asg_ecs_ids) THEN idx + 1 ELSE 1
    /\ pc' = IF idx < Len(asg_ecs_ids) THEN "ecs" ELSE AfterEcsLoop
    /\ UNCHANGED <<configVars, batchVars, reached_plain, output, raised, hookVars,
                   tagVars, pollVars>>

StartPlainMutate ==
    /\ mode = "start" /\ pc = "plain"
    /\ UNCHANGED otherCalls
    /\ LET asg == asg_ids[idx]
       IN  IF conf_values(asg_conf, asg) # {}
           THEN LET value == CHOOSE v \in conf_values(asg_conf, asg) : TRUE
                IN  \/ /\ updates' = [updates EXCEPT ![asg] = Append(@,
                                Mutation(asg, value.desired_capacity, value.min_size, FALSE))]
                       /\ UNCHANGED <<reached_plain, lastStatus>>
                    \/ /\ updates' = [updates EXCEPT ![asg] = Append(@,
                                Mutation(asg, value.desired_capacity, value.min_size, TRUE))]
                       /\ \/ UNCHANGED <<reached_plain, lastStatus>>
                          \/ \E resp \in Responses(asg_ids) :
                                /\ reached_plain' = StatusNames(get_asg_status(asg_ids, resp))
                                /\ lastStatus' = RecordStatus(asg_ids, resp)
           ELSE UNCHANGED <<updates, reached_plain, lastStatus>>
    /\ idx' = IF idx < Len(asg_ids) THEN idx + 1 ELSE 1
    /\ pc' = IF idx < Len(asg_ids) THEN "plain" ELSE "poll_ecs"
    /\ UNCHANGED <<configVars, batchVars, reached_ecs, output, raised, hookVars,
                   tagVars, pollVars>>

(***************************************************************************)
(* Lines 406-417 and 419-429.  When the list is shorter than the subset:   *)
(* sleep, compare the same list with the subset again (no status query is  *)
(* made), count, and `break` when the counter exceeds the ceiling, after a *)
(* warning for every group of the subset that is not in the list.          *)
(***************************************************************************)
StartPoll(ecs, next) ==
    LET ids == IF ecs THEN asg_ecs_ids ELSE asg_ids
        reached == IF ecs THEN reached_ecs ELSE reached_plain
        count == IF ecs THEN 0 ELSE get_status_count
    IN
    IF Len(reached) < Len(ids)
    THEN /\ waited' = waited \cup Range(ids)
         /\ rounds' = Waited(ecs)
         /\ IF Len(reached) = Len(ids)
            THEN /\ pc' = "done"
                 /\ get_status_count' = count
                 /\ UNCHANGED warned
            ELSE /\ get_status_count' = count + 1
                 /\ IF count + 1 > RETRY_CEILING
                    THEN /\ warned' = warned \cup (Range(ids) \ Range(reached))
                         /\ pc' = "done"
                    ELSE /\ pc' = next
                         /\ UNCHANGED warned
    ELSE /\ pc' = next
         /\ get_status_count' = count
         /\ UNCHANGED <<waited, warned, rounds>>

StartPollEcs ==
    /\ mode = "start" /\ pc = "poll_ecs"
    /\ UNCHANGED otherCalls
    /\ StartPoll(TRUE, "poll_plain")
    /\ UNCHANGED <<configVars, batchVars, idx, reached_ecs, reached_plain, output,
                   raised, hookVars, updates, lastStatus, polled, tagVars>>

StartPollPlain ==
    /\ mode = "start" /\ pc = "poll_plain"
    /\ UNCHANGED otherCalls
    /\ StartPoll(FALSE, "tag_ecs")
    /\ UNCHANGED <<configVars, batchVars, idx, reached_ecs, reached_plain, output,
                   raised, hookVars, updates, lastStatus, polled, tagVars>>

(* Lines 431-449 and 451-469. *)
StartTagEcs ==
    /\ mode = "start" /\ pc = "tag_ecs"
    /\ UNCHANGED otherCalls
    /\ TagAndYield(reached_ecs, stop_tags_keys(stopped_tags, started_tags),
                   started_tags, STATE_RUNNING)
    /\ pc' = "tag_plain"
    /\ UNCHANGED <<configVars, batchVars, idx, reached_ecs, reached_plain, raised,
                   hookVars, updates, lastStatus, pollVars>>

StartTagPlain ==
    /\ mode = "start" /\ pc = "tag_plain"
    /\ UNCHANGED otherCalls
    /\ TagAndYield(reached_plain, stop_tags_keys(stopped_tags, started_tags),
                   started_tags, STATE_RUNNING)
    /\ pc' = "batch"
    /\ UNCHANGED <<configVars, batchVars, idx, reached_ecs, reached_plain, raised,
                   hookVars, updates, lastStatus, pollVars>>

Next ==
    \/ StopInstances
    \/ StopNextBatch
    \/ StopEcsHook
    \/ StopEcsMutate
    \/ StopPlainMutate
    \/ StopPollEcs
    \/ StopPollPlain
    \/ StopTagEcs
    \/ StopTagPlain
    \/ StartInstances
    \/ StartNextBatch
    \/ StartEcsHook
    \/ StartEcsMutate
    \/ StartPlainMutate
    \/ StartPollEcs
    \/ StartPollPlain
    \/ StartTagEcs
    \/ StartTagPlain

Spec == Init /\ [][Next]_vars

(***************************************************************************)
(* The generator is run by a caller that iterates it to its end, and every *)
(* call it makes returns or raises: a step that can be taken is taken.     *)
(***************************************************************************)
FairSpec == Spec /\ WF_vars(Next)

(***************************************************************************)
(* instance_batches called on any list of groups with any size >= 1.       *)
(***************************************************************************)
BatchInputs == UNION {[1..n -> Groups] : n \in 0..MaxBatchInput}
BatchSizes == 1..MaxBatchSize

BatchInit ==
    /\ NoCall
    /\ tags = [g \in Groups |-> [k \in TagKeys |-> NoTag]]
    /\ NoDiscovery
    /\ batch_input \in BatchInputs
    /\ batch_size \in BatchSizes
    /\ batch_output = <<>>
    /\ batch_pc = "idle"

InstanceBatches ==
    /\ batch_pc = "idle"
    /\ batch_output' = instance_batches(batch_input, batch_size)
    /\ batch_pc' = "done"
    /\ UNCHANGED <<batch_input, batch_size, callVars, discoveryVars>>

BatchNext == InstanceBatches

BatchSpec == BatchInit /\ [][BatchNext]_vars

(***************************************************************************)
(* get_schedulable_instances.  The account holds groups with distinct      *)
(* names; the listing operation answers them in pages and gives, with      *)
(* every page but the last, the token that continues after it.             *)
(***************************************************************************)
ASG_STATE_RUNNING == "running"
ASG_STATE_TERMINATED == "stopped"
ASG_SCHEDULABLE_STATES == {ASG_STATE_RUNNING, ASG_STATE_TERMINATED}

tagname == "Schedule"
LogicalId == "aws:cloudformation:logical-id"
RawTagKeys == {tagname, LogicalId}
RawTagLists ==
    { <<>>,
      <<Tag(tagname, "office")>>,
      <<Tag(tagname, "office"), Tag(LogicalId, "ECSAutoScalingGroup")>>,
      <<Tag(tagname, "office"), Tag(LogicalId, "WebGroup")>>,
      <<Tag(LogicalId, "ECSAutoScalingGroup")>> }

(* What the jmespath projection gives for one group of a response. *)
RawGroups ==
    {[AutoScalingGroupName |-> g, DesiredCapacity |-> Capacity(g).desired_capacity,
      MinSize |-> Capacity(g).min_size, InstanceNumber |-> n, Tags |-> t] :
        g \in Groups, n \in 0..MaxInstances, t \in RawTagLists}

Accounts ==
    {s \in UNION {[1..n -> RawGroups] : n \in 0..Cardinality(Groups)} :
        \A i, j \in 1..Len(s) :
            i < j => DiscoveryOrder(s[i].AutoScalingGroupName)
                        < DiscoveryOrder(s[j].AutoScalingGroupName)}

RECURSIVE PagesOf(_, _)
PagesOf(groups, n) ==
    IF Len(groups) <= n
    THEN <<groups>>
    ELSE <<SubSeq(groups, 1, n)>> \o PagesOf(SubSeq(groups, n + 1, Len(groups)), n)

Listings == {PagesOf(a, n) : a \in Accounts, n \in 1..MaxPageSize}

(* The answer to a listing call: the token names the page read last. *)
describe_auto_scaling_groups(arguments) ==
    LET page == arguments.NextToken + 1
    IN  [AutoScalingGroups |-> listing[page],
         NextToken |-> IF page < Len(listing) THEN page ELSE NoToken]

(* Lines 108-109: the groups that have tags, one of them with key tagname. *)
jmes_search(asg_resp) ==
    SelectSeq(asg_resp.AutoScalingGroups,
              LAMBDA a : a.Tags # <<>> /\ tagname \in TagKeysOf(a.Tags))

(* Lines 139-142: the tags as a mapping; NoTag is what tags.get gives for an
   absent key. *)
get_tags(asg) ==
    [k \in RawTagKeys |->
        IF k \in TagKeysOf(asg.Tags)
        THEN asg.Tags[CHOOSE i \in 1..Len(asg.Tags) :
                        /\ asg.Tags[i].Key = k
                        /\ \A j \in (i + 1)..Len(asg.Tags) : asg.Tags[j].Key # k].Value
        ELSE NoTag]

(* Lines 160-178: asg_data for a state. *)
asg_data(asg, state) ==
    LET is_running == ASG_STATE_RUNNING = state
        is_terminated == state = ASG_STATE_TERMINATED
    IN  [id |-> asg.AutoScalingGroupName,
         name |-> asg.AutoScalingGroupName,
         desired_capacity |-> asg.DesiredCapacity,
         min_size |-> asg.MinSize,
         schedule_name |-> get_tags(asg)[tagname],
         state |-> state,
         is_running |-> is_running,
         is_terminated |-> is_terminated,
         current_state |-> IF is_running THEN STATE_RUNNING ELSE STATE_STOPPED,
         instance_type |-> "asg",
         asg_is_ecs |-> IF get_tags(asg)[LogicalId] = "ECSAutoScalingGroup"
                        THEN "true" ELSE "false",
         tags |-> get_tags(asg)]

select_instance_data_ByDesiredCapacity(asg) ==
    asg_data(asg, IF asg.DesiredCapacity = 0
                  THEN ASG_STATE_TERMINATED ELSE ASG_STATE_RUNNING)

select_instance_data(asg) ==
    asg_data(asg, IF asg.InstanceNumber = 0
                  THEN ASG_STATE_TERMINATED ELSE ASG_STATE_RUNNING)

is_in_schedulable_state(asg) == asg.state \in ASG_SCHEDULABLE_STATES

(* Line 130: the response carries no continuation token. *)
LastPage_Always(asg_resp) == TRUE

LastPage(asg_resp) == asg_resp.NextToken = NoToken

DiscoveryInit ==
    /\ NoCall
    /\ tags = [g \in Groups |-> [k \in TagKeys |-> NoTag]]
    /\ NoBatchCall
    /\ listing \in Listings
    /\ args = [NextToken |-> NoToken]
    /\ number_of_asgs = 0
    /\ discovered = <<>>
    /\ selected = <<>>
    /\ describe_calls = <<>>
    /\ returned = [done |-> FALSE, value |-> <<>>]
    /\ d_pc = "idle"

(* Lines 93-114: the call starts with no argument and an empty list. *)
GetSchedulableInstances ==
    /\ d_pc = "idle"
    /\ args' = [NextToken |-> NoToken]
    /\ number_of_asgs' = 0
    /\ discovered' = <<>>
    /\ d_pc' = "paging"
    /\ UNCHANGED <<listing, selected, describe_calls, returned, callVars, batchCallVars>>

(***************************************************************************)
(* Lines 114-131: one round of the paging loop.  The listing call raises,  *)
(* which leaves the function, or answers a page: every group the search    *)
(* keeps is converted and counted, and appended when its state is          *)
(* schedulable; a token in the response is the argument of the next call,  *)
(* no token ends the loop and the list is returned.                        *)
(***************************************************************************)
DescribePage ==
    /\ d_pc = "paging"
    /\ describe_calls' = Append(describe_calls, args.NextToken)
    /\ \/ /\ d_pc' = "raised"
          /\ UNCHANGED <<args, number_of_asgs, discovered, selected, returned>>
       \/ LET asg_resp == describe_auto_scaling_groups(args)
              found == jmes_search(asg_resp)
              data == [i \in 1..Len(found) |-> select_instance_data(found[i])]
              kept == SelectSeq(data, is_in_schedulable_state)
          IN  /\ number_of_asgs' = number_of_asgs + Len(data)
              /\ discovered' = discovered \o kept
              /\ selected' = selected \o
                    [i \in 1..Len(found) |-> [asg |-> found[i], data |-> data[i]]]
              /\ IF LastPage(asg_resp)
                 THEN /\ returned' = [done |-> TRUE, value |-> discovered \o kept]
                      /\ d_pc' = "returned"
                      /\ UNCHANGED args
                 ELSE /\ args' = [NextToken |-> asg_resp.NextToken]
                      /\ UNCHANGED <<returned, d_pc>>
    /\ UNCHANGED <<listing, callVars, batchCallVars>>

DiscoveryNext ==
    \/ GetSchedulableInstances
    \/ DescribePage

DiscoverySpec == DiscoveryInit /\ [][DiscoveryNext]_vars

(***************************************************************************)
(* Properties                                                              *)
(***************************************************************************)
Emitted == {output[i][1] : i \in 1..Len(output)}
BatchLeft == pc \in {"batch", "done"} /\ raised = "none" /\ asg_instance # <<>>

(* C1: stop_instances yields (g, STOPPED) only for a group that the latest
   status query of its subset reported as stopped. *)
C1_StoppedOnlyIfReportedStopped ==
    mode = "stop" => \A g \in Emitted : lastStatus[g] = "stopped"

(* C2: start_instances yields (g, RUNNING) only for a group that the latest
   status query of its subset reported as running. *)
C2_RunningOnlyIfReportedRunning ==
    mode = "start" => \A g \in Emitted : lastStatus[g] = "running"

(* C3: late convergence on stop: when a batch went through the wait and the
   re-check, and the latest status of every group of the batch is stopped,
   every group of the batch is emitted once the batch is left. *)
C3_LateConvergenceEmitsAll ==
    ( /\ mode = "stop"
      /\ BatchLeft
      /\ Range(asg_instance) \cap polled # {}
      /\ \A g \in Range(asg_instance) : lastStatus[g] = "stopped" )
    => Range(asg_instance) \subseteq Emitted

(* C4: plateau on stop: a batch whose re-check still reports a group as not
   stopped is left only once the retry counter exceeds the ceiling; the
   still-divergent groups are then warned about and excluded from the output,
   and the groups reported stopped are emitted. *)
C4_PlateauWarnsAndExcludes ==
    ( /\ mode = "stop"
      /\ BatchLeft
      /\ \E g \in Range(asg_instance) \cap polled : lastStatus[g] # "stopped" )
    => /\ get_status_count > RETRY_CEILING
       /\ \A g \in Range(asg_instance) :
             IF lastStatus[g] = "stopped"
             THEN g \in Emitted
             ELSE g \in warned /\ g \notin Emitted

(* C5: start_instances re-queries the status of a subset after it waited for
   it: every group whose subset went through the wait has been covered by a
   status query made after the wait. *)
C5_StartRequeriesAfterWait ==
    mode = "start" => waited \subseteq polled

(* C6: batch isolation: when the call ends without an exception, a scaling
   mutation has been issued for every group of the input (on start: every
   group with an entry in the scaling configuration), whatever happened in
   the earlier batches. *)
C6_LaterBatchesProcessed ==
    (pc = "done" /\ raised = "none")
    => \A g \in Range(instances) :
          (mode = "stop" \/ g \in DOMAIN asg_conf) => updates[g] # <<>>

(* C7: tag transition law: a group emitted by stop_instances whose tagging
   block did not raise carries every stopped tag with its stopped value (so
   the stopped value wins for a key of both sets) and no started-tag key that
   is not a stopped-tag key. *)
C7_TagTransitionLaw ==
    mode = "stop" =>
        \A g \in Emitted \ tagBlockFailed :
            /\ \A i \in 1..Len(stopped_tags) :
                  tags[g][stopped_tags[i].Key] = stopped_tags[i].Value
            /\ \A k \in TagKeysOf(started_tags) \ TagKeysOf(stopped_tags) :
                  tags[g][k] = NoTag

C7_Witness ==
    /\ mode = "stop"
    /\ \E g \in Emitted \ tagBlockFailed :
          /\ tags[g]["owner"] = "team"
          /\ tags[g]["state"] = "stopped"
          /\ tags[g]["startedBy"] = NoTag
    /\ TagKeysOf(started_tags) \cap TagKeysOf(stopped_tags) # {}
    /\ TagKeysOf(started_tags) \ TagKeysOf(stopped_tags) # {}

(* C8: a failure of a tagging call never prevents the yield: once the tagging
   step of a subset is over, the output ends with the whole reached list of
   that subset, and every group of a reached list whose tagging raised has
   been emitted. *)
ReachedPairs(reached) ==
    [i \in 1..Len(reached) |->
        <<reached[i], IF mode = "stop" THEN STATE_STOPPED ELSE STATE_RUNNING>>]
EndsWith(seq, tail) ==
    /\ Len(tail) <= Len(seq)
    /\ SubSeq(seq, Len(seq) - Len(tail) + 1, Len(seq)) = tail

C8_TaggingFailureKeepsYield ==
    /\ pc = "tag_plain" => EndsWith(output, ReachedPairs(reached_ecs))
    /\ pc = "batch" =>
          EndsWith(output, ReachedPairs(reached_ecs) \o ReachedPairs(reached_plain))
    /\ tagBlockFailed \subseteq Emitted

C8_Witness ==
    /\ pc = "batch"
    /\ Range(reached_plain) \cap tagBlockFailed # {}
    /\ Range(reached_ecs) \cap tagBlockFailed # {}
    /\ Len(output) = Len(reached_ecs) + Len(reached_plain)

(* C9: tag bookkeeping is independent per group: when a tagging call raised
   for one group, every other group of the same reached list still has its
   opposite-state tags removed and its reached-state tags set. *)
BookkeepingDone(g) ==
    LET add == IF mode = "stop" THEN stopped_tags ELSE started_tags
        remove == IF mode = "stop" THEN started_tags ELSE stopped_tags
    IN  /\ \A i \in 1..Len(add) : tags[g][add[i].Key] = add[i].Value
        /\ \A k \in TagKeysOf(remove) \ TagKeysOf(add) : tags[g][k] = NoTag

C9_TaggingIndependentPerGroup ==
    \A g \in tagBlockFailed \ tagFailedOn : BookkeepingDone(g)

(* C10: lifecycle-hook preparation is best-effort: no failure of the hook
   preparation leaves the call, and the scaling mutation of the group is
   still issued. *)
HookPreparationErrors == {"IndexError", "ValueError"}

C10_HookPreparationSwallowed ==
    /\ raised \notin HookPreparationErrors
    /\ pc = "done" /\ raised = "none" =>
          \A g \in Range(instances) \cap EcsGroups :
              (mode = "stop" \/ g \in DOMAIN asg_conf) => updates[g] # <<>>

(* C11: graceful stop ordering: for every ECS group that stop_instances
   mutates and whose termination hook was found, put_lifecycle_hook was
   called once for that group before the mutation, with the heartbeat
   timeout read from the parameter store, or 300 when the read failed. *)
TimeoutRead(parameter) ==
    IF parameter.ClientError
    THEN DEFAULT_HEARTBEAT_TIMEOUT
    ELSE ParseDigits(parameter.Value, Len(parameter.Value))

C11_HookPutBeforeStopMutation ==
    mode = "stop" =>
        \A g \in EcsGroups :
            (hookLookup[g] = "found" /\ updates[g] # <<>>) =>
                /\ Len(paramRead[g]) = 1
                /\ Len(putCalls[g]) = 1
                /\ putCalls[g][1].AutoScalingGroupName = g
                /\ ~putCalls[g][1].mutated
                /\ putCalls[g][1].HeartbeatTimeout = TimeoutRead(paramRead[g][1])

C11_Witness ==
    /\ mode = "stop" /\ pc = "done"
    /\ \E g \in EcsGroups :
          /\ hookLookup[g] = "found" /\ updates[g] # <<>>
          /\ paramRead[g] # <<>> /\ ~paramRead[g][1].ClientError
          /\ putCalls[g] # <<>>

(* C12: no short-circuit on stop: every group passed to stop_instances gets
   exactly one scaling mutation, and the mutations of stop_instances set the
   desired capacity and the minimum size to 0 and nothing else. *)
C12_EveryGroupMutatedOnceToZero ==
    mode = "stop" =>
        /\ \A g \in Groups : \A i \in 1..Len(updates[g]) :
              /\ updates[g][i].AutoScalingGroupName = g
              /\ updates[g][i].DesiredCapacity = 0
              /\ updates[g][i].MinSize = 0
        /\ pc = "done" => \A g \in Range(instances) : Len(updates[g]) = 1

(* C13: start mutation uses only the group's own configuration: every
   mutation start_instances issues for a group carries the desired capacity
   and the minimum size of the asg_conf entry of that very group, and a group
   without an entry gets no mutation. *)
C13_StartUsesOwnConfEntry ==
    mode = "start" =>
        \A g \in Groups :
            IF g \in DOMAIN asg_conf
            THEN \A i \in 1..Len(updates[g]) :
                    /\ updates[g][i].AutoScalingGroupName = g
                    /\ updates[g][i].DesiredCapacity = asg_conf[g].desired_capacity
                    /\ updates[g][i].MinSize = asg_conf[g].min_size
            ELSE updates[g] = <<>>

C13_Witness ==
    /\ mode = "start" /\ pc = "tag_ecs"
    /\ \E g \in Range(asg_instance) : updates[g] # <<>>
    /\ \E h \in Range(asg_instance) : h \notin DOMAIN asg_conf /\ updates[h] = <<>>

(* C14: instance_batches(groups, size) with size >= 1 partitions the input
   in order: the yielded batches concatenated are the input, every batch
   holds between 1 and size groups, every batch but the last holds exactly
   size groups, and an empty input yields no batch. *)
RECURSIVE Concatenation(_)
Concatenation(seqs) ==
    IF seqs = <<>> THEN <<>> ELSE Head(seqs) \o Concatenation(Tail(seqs))

C14_BatchesPartitionInput ==
    batch_pc = "done" =>
        /\ Concatenation(batch_output) = batch_input
        /\ \A k \in 1..Len(batch_output) :
              /\ Len(batch_output[k]) >= 1
              /\ Len(batch_output[k]) <= batch_size
              /\ k < Len(batch_output) => Len(batch_output[k]) = batch_size
        /\ batch_input = <<>> => batch_output = <<>>

C14_Witness ==
    /\ batch_pc = "done"
    /\ Len(batch_output) >= 2
    /\ Len(batch_output[Len(batch_output)]) < batch_size

(* C15: classification: for every raw group descriptor _select_instance_data
   gives state stopped when the in-service instance count is 0 and running
   when it is greater; the current schedule state mirrors it; exactly one of
   is_running and is_terminated holds; the state is running or stopped. *)
C15_ClassificationByInstanceCount ==
    \A i \in 1..Len(selected) :
        LET asg == selected[i].asg
            data == selected[i].data
        IN  /\ asg.InstanceNumber = 0 => data.state = "stopped"
            /\ asg.InstanceNumber > 0 => data.state = "running"
            /\ data.state \in {"running", "stopped"}
            /\ data.is_running = (data.state = "running")
            /\ data.is_terminated = (data.state = "stopped")
            /\ data.is_running # data.is_terminated
            /\ data.current_state =
                  (IF data.state = "running" THEN STATE_RUNNING ELSE STATE_STOPPED)

C15_Witness ==
    /\ d_pc = "returned"
    /\ \E i, j \in 1..Len(selected) :
          /\ selected[i].asg.InstanceNumber = 0
          /\ selected[j].asg.InstanceNumber > 0

(* C16: discovery is all-or-nothing over pages: the first listing call has
   no token, every later call has the token of the response before it, the
   calls stop at the first response without a token, and the list returned
   then holds the schedulable groups of every page in page order; when a
   listing call raises nothing is returned. *)
HasScheduleTag(asg) == \E i \in 1..Len(asg.Tags) : asg.Tags[i].Key = tagname
SchedulableNames ==
    LET all == SelectSeq(Concatenation(listing), HasScheduleTag)
    IN  [i \in 1..Len(all) |-> all[i].AutoScalingGroupName]
TokenAfter(page) == IF page < Len(listing) THEN page ELSE NoToken

C16_DiscoveryAllPagesOrNothing ==
    /\ \A i \in 1..Len(describe_calls) :
          /\ i <= Len(listing)
          /\ describe_calls[i] = (IF i = 1 THEN NoToken ELSE TokenAfter(i - 1))
    /\ d_pc = "returned" =>
          /\ Len(describe_calls) = Len(listing)
          /\ returned.done
          /\ [i \in 1..Len(returned.value) |-> returned.value[i].id] = SchedulableNames
    /\ d_pc # "returned" => ~returned.done /\ returned.value = <<>>

C16_Witness ==
    /\ d_pc = "returned"
    /\ Len(listing) >= 2
    /\ Len(returned.value) >= 2
    /\ Len(returned.value) < Len(Concatenation(listing))
    /\ listing[1] # <<>> /\ listing[2] # <<>>
    /\ returned.value[1].id \notin {listing[2][k].AutoScalingGroupName : k \in 1..Len(listing[2])}

(* C17: bounded polling and termination: whatever the control plane answers,
   a stop_instances or start_instances call comes to its end, and in every
   batch each subset goes through at most RETRY_CEILING + 1 rounds of wait
   and re-check. *)
C17_TerminatesWithBoundedRounds ==
    /\ [](rounds.ecs <= RETRY_CEILING + 1 /\ rounds.plain <= RETRY_CEILING + 1)
    /\ <>(pc = "done")

C17_Witness ==
    /\ pc = "done" /\ raised = "none"
    /\ rounds.ecs + rounds.plain > 0
    /\ \E g \in waited : lastStatus[g] # "stopped" /\ g \notin Emitted

(* C18: start-path hook policy: in start_instances an ECS group whose
   termination hook was found gets one put_lifecycle_hook call with a
   heartbeat timeout of exactly 3600, made before its scale-up mutation; the
   parameter store is never read during start; a plain group never gets a
   put_lifecycle_hook call, in stop or in start. *)
C18_StartHookPolicy ==
    /\ mode = "start" =>
          \A g \in Groups :
              /\ paramRead[g] = <<>>
              /\ (g \in EcsGroups /\ hookLookup[g] = "found") =>
                    /\ Len(putCalls[g]) = 1
                    /\ putCalls[g][1].AutoScalingGroupName = g
                    /\ putCalls[g][1].HeartbeatTimeout = START_HEARTBEAT_TIMEOUT
                    /\ ~putCalls[g][1].mutated
    /\ \A g \in Groups \ EcsGroups : putCalls[g] = <<>> /\ hookLookup[g] = "unknown"

C18_Witness ==
    /\ mode = "start" /\ pc = "done"
    /\ \E g \in EcsGroups :
          /\ hookLookup[g] = "found" /\ putCalls[g] # <<>>
          /\ updates[g] # <<>> /\ updates[g][1].accepted
    /\ \E h \in Groups \ EcsGroups : updates[h] # <<>>

(* C19: lazy, ordered emission: the batches are handled in input order, one
   after the other; a pair is yielded only while no group of a later batch
   has been the subject of a control-plane call; the yielded pairs follow
   the order of the batches and, within a batch, those of the ECS groups
   come before those of the plain groups. *)
BatchIn(list, direction, g) ==
    LET position == CHOOSE i \in 1..Len(list) : list[i] = g
        size == IF direction = "stop" THEN STOP_BATCH_SIZE ELSE START_BATCH_SIZE
    IN  ((position - 1) \div size) + 1
BatchOf(g) == BatchIn(instances, mode, g)
BatchThen(g) == BatchIn(instances', mode', g)
Called ==
    {g \in Groups : \/ updates[g] # <<>>
                    \/ hookLookup[g] # "unknown"
                    \/ paramRead[g] # <<>>
                    \/ putCalls[g] # <<>>
                    \/ lastStatus[g] # "none"
                    \/ g \in tagFailedOn}
OrderedOutput ==
    \A i, j \in 1..Len(output) :
        i < j =>
            \/ BatchOf(output[i][1]) < BatchOf(output[j][1])
            \/ /\ BatchOf(output[i][1]) = BatchOf(output[j][1])
               /\ (output[i][1] \in EcsGroups \/ output[j][1] \notin EcsGroups)
CurrentBatch == IF asg_instance = <<>> THEN 0 ELSE BatchOf(asg_instance[1])

C19_LazyOrderedEmission ==
    [][ /\ OrderedOutput'
        /\ asg_instance' # asg_instance => CurrentBatch' = CurrentBatch + 1
        /\ \A h \in Called' : BatchThen(h) <= CurrentBatch'
        /\ \A i \in (Len(output) + 1)..Len(output') :
              /\ BatchThen(output'[i][1]) = CurrentBatch'
              /\ \A h \in Called' : BatchThen(h) <= BatchThen(output'[i][1])
      ]_vars

C19_Witness ==
    /\ pc = "done"
    /\ \E i, j \in 1..Len(output) : BatchOf(output[i][1]) < BatchOf(output[j][1])
    /\ \E g \in Emitted : g \in EcsGroups
    /\ \E g \in Emitted : g \notin EcsGroups

(* C20: a group whose scale-to-zero mutation raised is not yielded by
   stop_instances: every group it yields had its mutation accepted earlier
   in the same call. *)
C20_YieldedOnlyAfterAcceptedMutation ==
    mode = "stop" =>
        \A g \in Emitted : \E i \in 1..Len(updates[g]) : updates[g][i].accepted

(* C21: in start_instances a group that has no entry in asg_conf, and so
   gets no scaling mutation, is not yielded as running and gets no start
   tags, whatever the other groups of its subset have. *)
C21_NoEntryNeverYielded ==
    mode = "start" =>
        \A g \in Range(instances) :
            g \notin DOMAIN asg_conf =>
                /\ g \notin Emitted
                /\ g \notin tagFailedOn \cup tagBlockFailed

(* C22: for an input of groups with distinct ids a call of stop_instances or
   start_instances yields every id at most once, yields only ids of groups
   passed to the call, and yields them with the state stopped in
   stop_instances and running in start_instances. *)
C22_YieldsDistinctInputGroups ==
    /\ \A i, j \in 1..Len(output) : output[i][1] = output[j][1] => i = j
    /\ \A i \in 1..Len(output) :
          /\ output[i][1] \in Range(instances)
          /\ mode = "stop" => output[i][2] = STATE_STOPPED
          /\ mode = "start" => output[i][2] = STATE_RUNNING

C22_Witness ==
    /\ pc = "done"
    /\ Len(output) = Len(instances)
    /\ Len(output) >= 2
    /\ \E i \in 1..Len(output) : output[i][1] # instances[i]

(* C23: a failure of the scaling mutation, or of the status query after it,
   for one group is caught: the step that makes the calls never leaves the
   generator, and once the mutation loops of a batch are over the mutation
   has been issued for every group of the batch (in start_instances, for
   every group of the batch that has an asg_conf entry). *)
MutationLoopsOver == pc \in {"poll_ecs", "poll_plain", "tag_ecs", "tag_plain"}
BatchMutated ==
    \A g \in Range(asg_instance) :
        (mode = "stop" \/ g \in DOMAIN asg_conf) => updates[g] # <<>>

C23_MutationFailureContained ==
    [][ /\ pc \in {"ecs_mutate", "plain"} => raised' = "none" /\ pc' # "done"
        /\ MutationLoopsOver' => BatchMutated'
      ]_vars

C23_Witness ==
    /\ pc = "poll_ecs"
    /\ Len(asg_ids) >= 2
    /\ updates[asg_ids[1]] # <<>> /\ ~updates[asg_ids[1]][1].accepted
    /\ updates[asg_ids[2]] # <<>>

(* C24: tag bookkeeping has a bounded footprint: a step of stop_instances or
   start_instances changes a tag only when its key is a key of the
   configured started or stopped tags and its group is in the reached list
   being handled; no tag is set to propagate at launch; every other tag of
   every group stays as it was. *)
ListBeingTagged ==
    CASE pc = "tag_ecs" -> reached_ecs
      [] pc = "tag_plain" -> reached_plain
      [] OTHER -> <<>>

C24_TagFootprintBounded ==
    [][ /\ \A g \in Groups, k \in TagKeys :
              tags'[g][k] # tags[g][k] =>
                  /\ k \in TagKeysOf(started_tags) \cup TagKeysOf(stopped_tags)
                  /\ g \in Range(ListBeingTagged)
        /\ propagated' = {}
      ]_vars

C24_Witness ==
    /\ pc = "done"
    /\ \E g \in Emitted, h \in Range(instances) \ Emitted :
          /\ tags[g] # tags[h]
          /\ tags[g]["owner"] = tags[h]["owner"]
          /\ tags[h]["owner"] # NoTag

====
